---- MODULE Spec2Model ----
(***************************************************************************)
(* Model of the upload pipeline of journald-to-cloudwatch                  *)
(* (src/src/cloudwatch.rs, src/src/main.rs).                               *)
(*                                                                         *)
(* The specifications share the same variables:                            *)
(*   Spec        the Batcher (UploadThreadState) driven through push() and *)
(*               flush() the way the unit tests drive it;                  *)
(*   ThreadSpec  the upload task (upload_thread) fed by the journal        *)
(*               producer through the mpsc channel, with a wall clock.     *)
(*   FairThreadSpec is ThreadSpec with the fairness the tokio runtime      *)
(*               gives the upload task.                                    *)
(*   GroupSpec   do_group_events applied to bounded lists of events;       *)
(*   UploaderSpec  the CloudWatch uploader (new, upload) against a remote  *)
(*               service whose answers are chosen freely;                  *)
(*   ConfigSpec  the resolution of the log stream name at startup.         *)
(*                                                                         *)
(* A Rust Option<T> is modelled as a sequence: None is <<>>, Some(x) is    *)
(* <<x>>.  A message string is modelled by its length in bytes, the only   *)
(* thing the Batcher reads of it.                                          *)
(***************************************************************************)
EXTENDS Integers, Sequences, FiniteSets, TLC

VARIABLES
    is_debug_mode_enabled, \* Configuration.is_debug_mode_enabled
    events,                \* UploadThreadState.events
    first_timestamp,       \* UploadThreadState.first_timestamp : Option<i64>
    last_timestamp,        \* UploadThreadState.last_timestamp  : Option<i64>
    num_pending_bytes,     \* UploadThreadState.num_pending_bytes
    uploader,              \* the batches handed to Uploader::upload, in call order
    rx,                    \* events buffered in the mpsc channel
    tx_dropped,            \* TRUE once every Sender has been dropped
    pc,                    \* position of the driver: "api", "recv", "done"
    now,                   \* Utc::now().timestamp_millis()
    ticks,                 \* number of clock advances so far
    sent,                  \* history: events the producer put on the channel
    pushed,                \* history: events passed to push(), in call order
    burst,                 \* remaining events of the opening burst
    pushes,                \* number of freely chosen events pushed / sent so far
    last,                  \* history: the last operation, its input, its pre-state
                           \* and the flush() calls it made
    g_events,              \* do_group_events: the argument
    g_groups,              \* do_group_events: the result, None before the call
    g_regroups,            \* the results of do_group_events on each sub-group
    sequence_token,        \* CloudWatch.sequence_token : Option<String>
    cw,                    \* history: the last operation of the CloudWatch
                           \* uploader, the token it found, the sub-groups,
                           \* the PutLogEvents requests and the token refreshes
    probe,                 \* the answers of the metadata endpoint and of EC2
    log_stream_name        \* Configuration.log_stream_name, None before startup

vars == <<is_debug_mode_enabled, events, first_timestamp, last_timestamp,
          num_pending_bytes, uploader, rx, tx_dropped, pc, now, ticks, sent,
          pushed, burst, pushes, last, g_events, g_groups, g_regroups,
          sequence_token, cw, probe, log_stream_name>>

\* the variables of the Batcher and of the upload task
batcherVars == <<is_debug_mode_enabled, events, first_timestamp,
                 last_timestamp, num_pending_bytes, uploader, rx, tx_dropped,
                 pc, now, ticks, sent, pushed, burst, pushes, last>>
groupVars == <<g_events, g_groups, g_regroups>>
uploaderVars == <<sequence_token, cw>>
configVars == <<probe, log_stream_name>>

----------------------------------------------------------------------------
(* Bounds of the model *)

\* freely chosen events pushed in one behaviour of Spec
MaxPushes == 3
\* events the producer sends in one behaviour of ThreadSpec
MaxSends == 2
\* length of the opening burst of identical events that fills pending
PreFill == 97
\* events the channel buffers in the model (the code's capacity is 1024)
MaxChan == 2
\* clock advances in one behaviour
MaxTicks == 3
\* length of the lists handed to do_group_events in GroupSpec
MaxGroupLen == 3
\* length of the batches handed to CloudWatch::upload in UploaderSpec
MaxBatchLen == 2
\* tags of the instance DescribeInstances answers with in ConfigSpec
MaxTags == 2

----------------------------------------------------------------------------
(* Program constants *)

max_bytes == 1048576
EventOverhead == 26
AgeLimit == 1000

None == <<>>
Some(x) == <<x>>

\* variant: the comparison is not strict
OptionLt_NotStrict(a, b) ==
    IF a = None THEN b # None
    ELSE IF b = None THEN FALSE
    ELSE a[1] <= b[1]

\* Option<i64> compared with `<` as Rust derives it: None < Some(_)
OptionLt(a, b) ==
    IF a = None THEN b # None
    ELSE IF b = None THEN FALSE
    ELSE a[1] < b[1]

get_event_num_bytes(event) ==
    IF event.message # None THEN event.message[1] + EventOverhead
    ELSE EventOverhead

\* variant: debug mode does not lower the cap
max_events_NoDebug(debug) == 100

max_events(debug) == IF debug THEN 1 ELSE 100

----------------------------------------------------------------------------
(* Inputs *)

\* message lengths: empty, half of max_bytes with the overhead, one byte
\* more than max_bytes with the overhead
MessageLens == {0, 524262, 1048551}
Timestamps == {None, Some(1), Some(2)}

InputLogEvent(ts, m) == [timestamp |-> ts, message |-> m]

Events == {InputLogEvent(ts, Some(m)) : ts \in Timestamps, m \in MessageLens}

BurstEvent == InputLogEvent(Some(1), Some(0))

----------------------------------------------------------------------------
(* UploadThreadState *)

\* the four bookkeeping fields of a Batcher state
Fields(s) ==
    [events |-> s.events, first_timestamp |-> s.first_timestamp,
     last_timestamp |-> s.last_timestamp,
     num_pending_bytes |-> s.num_pending_bytes]

\* UploadThreadState::new
new(debug) ==
    [debug |-> debug, events |-> <<>>, first_timestamp |-> None,
     last_timestamp |-> None, num_pending_bytes |-> 0, uploader |-> <<>>,
     log |-> <<>>]

\* The current state as a record; log collects the flush() calls of the
\* operation being executed.
State ==
    [debug |-> is_debug_mode_enabled, events |-> events,
     first_timestamp |-> first_timestamp, last_timestamp |-> last_timestamp,
     num_pending_bytes |-> num_pending_bytes, uploader |-> uploader,
     log |-> <<>>]

\* variant: flush() hands a copy to the Uploader and keeps pending
flush_KeepsEvents(s) ==
    LET r == IF s.events = <<>> THEN s
             ELSE [s EXCEPT !.uploader = Append(@, s.events),
                            !.first_timestamp = None,
                            !.last_timestamp = None,
                            !.num_pending_bytes = 0]
        batch == IF s.events = <<>> THEN None ELSE Some(s.events)
    IN  [r EXCEPT !.log = Append(@, [batch |-> batch, post |-> Fields(r)])]

\* variant: flush() forgets to reset num_pending_bytes
flush_KeepsBytes(s) ==
    LET r == IF s.events = <<>> THEN s
             ELSE [s EXCEPT !.uploader = Append(@, s.events),
                            !.events = <<>>,
                            !.first_timestamp = None,
                            !.last_timestamp = None]
        batch == IF s.events = <<>> THEN None ELSE Some(s.events)
    IN  [r EXCEPT !.log = Append(@, [batch |-> batch, post |-> Fields(r)])]

\* variant: flush() without the early return on an empty pending
flush_NoEarlyReturn(s) ==
    LET r == [s EXCEPT !.uploader = Append(@, s.events),
                       !.events = <<>>,
                       !.first_timestamp = None,
                       !.last_timestamp = None,
                       !.num_pending_bytes = 0]
    IN  [r EXCEPT !.log = Append(@, [batch |-> Some(s.events),
                                     post |-> Fields(r)])]

\* UploadThreadState::flush; every call is logged with the batch it handed
\* to Uploader::upload (None when it returned early) and its post-state.
flush(s) ==
    LET r == IF s.events = <<>> THEN s
             ELSE [s EXCEPT !.uploader = Append(@, s.events),
                            !.events = <<>>,
                            !.first_timestamp = None,
                            !.last_timestamp = None,
                            !.num_pending_bytes = 0]
        batch == IF s.events = <<>> THEN None ELSE Some(s.events)
    IN  [r EXCEPT !.log = Append(@, [batch |-> batch, post |-> Fields(r)])]

\* UploadThreadState::push: the ordering, size and count triggers, then
\* the append

\* variant: the new event is compared with first_timestamp
push_ordering_First(s, event) ==
    IF s.first_timestamp # None
       /\ OptionLt(event.timestamp, s.first_timestamp)
    THEN flush(s) ELSE s

push_ordering(s, event) ==
    IF s.last_timestamp # None /\ OptionLt(event.timestamp, s.last_timestamp)
    THEN flush(s) ELSE s

push_size(s, event) ==
    IF s.num_pending_bytes + get_event_num_bytes(event) > max_bytes
    THEN flush(s) ELSE s

\* variant: the count comparison is off by one
push_count_OffByOne(s, event) ==
    IF Len(s.events) + 1 > max_events(s.debug) THEN flush(s) ELSE s

push_count(s, event) ==
    IF Len(s.events) + 1 >= max_events(s.debug) THEN flush(s) ELSE s

\* variant: first_timestamp is overwritten by every push
push_append_FirstAlways(s, event) ==
    [s EXCEPT !.first_timestamp = event.timestamp,
              !.last_timestamp = event.timestamp,
              !.num_pending_bytes = @ + get_event_num_bytes(event),
              !.events = Append(@, event)]

push_append(s, event) ==
    [s EXCEPT !.first_timestamp =
                  IF s.first_timestamp = None THEN event.timestamp ELSE @,
              !.last_timestamp = event.timestamp,
              !.num_pending_bytes = @ + get_event_num_bytes(event),
              !.events = Append(@, event)]

\* variant: the count trigger is evaluated after the append
push_CountAfterAppend(s, event) ==
    LET t == push_append(push_size(push_ordering(s, event), event), event)
    IN  IF Len(t.events) >= max_events(t.debug) THEN flush(t) ELSE t

push(s, event) ==
    push_append(push_count(push_size(push_ordering(s, event), event), event),
                event)

\* the variables take the fields of r; last records the operation
Becomes(r, op, arg) ==
    /\ events' = r.events
    /\ first_timestamp' = r.first_timestamp
    /\ last_timestamp' = r.last_timestamp
    /\ num_pending_bytes' = r.num_pending_bytes
    /\ uploader' = r.uploader
    /\ pushed' = IF op = "push" THEN Append(pushed, arg[1]) ELSE pushed
    /\ last' = [op |-> op, event |-> arg, pre |-> Fields(State),
                uploader |-> uploader, flushes |-> r.log]

----------------------------------------------------------------------------
(* The parts of the state a specification does not exercise stay as they   *)
(* are before the corresponding code has run.                              *)

GroupIdle == g_events = <<>> /\ g_groups = None /\ g_regroups = None

\* no CloudWatch uploader constructed yet: no token, no RPC issued
CwInit == [op |-> "none", before |-> None, groups |-> <<>>, puts |-> <<>>,
           refreshes |-> <<>>]

UploaderIdle == sequence_token = None /\ cw = CwInit

ConfigIdle == probe = None /\ log_stream_name = None

BatcherIdle ==
    /\ is_debug_mode_enabled = FALSE
    /\ events = <<>>
    /\ first_timestamp = None
    /\ last_timestamp = None
    /\ num_pending_bytes = 0
    /\ uploader = <<>>
    /\ rx = <<>>
    /\ tx_dropped = FALSE
    /\ pc = "idle"
    /\ now = 0
    /\ ticks = 0
    /\ sent = <<>>
    /\ pushed = <<>>
    /\ burst = 0
    /\ pushes = 0
    /\ last = [op |-> "new", event |-> None, pre |-> Fields(new(FALSE)),
               uploader |-> <<>>, flushes |-> <<>>]

----------------------------------------------------------------------------
(* Spec: the Batcher driven through its two operations *)

Init ==
    /\ is_debug_mode_enabled \in BOOLEAN
    /\ events = <<>>
    /\ first_timestamp = None
    /\ last_timestamp = None
    /\ num_pending_bytes = 0
    /\ uploader = <<>>
    /\ rx = <<>>
    /\ tx_dropped = FALSE
    /\ pc = "api"
    /\ now = 0
    /\ ticks = 0
    /\ sent = <<>>
    /\ pushed = <<>>
    /\ burst \in {0, PreFill}
    /\ pushes = 0
    /\ last = [op |-> "new", event |-> None, pre |-> Fields(new(FALSE)),
               uploader |-> <<>>, flushes |-> <<>>]
    /\ GroupIdle /\ UploaderIdle /\ ConfigIdle

\* state.push(event).await; a behaviour may open with a burst of PreFill
\* identical events, after which the events are chosen freely
Push ==
    /\ pc = "api"
    /\ \E event \in Events :
          /\ IF burst > 0
             THEN event = BurstEvent /\ burst' = burst - 1 /\ pushes' = pushes
             ELSE pushes < MaxPushes /\ pushes' = pushes + 1 /\ burst' = burst
          /\ Becomes(push(State, event), "push", Some(event))
    /\ UNCHANGED <<is_debug_mode_enabled, rx, tx_dropped, pc, now, ticks, sent>>
    /\ UNCHANGED <<groupVars, uploaderVars, configVars>>

\* state.flush().await
Flush ==
    /\ pc = "api"
    /\ burst = 0
    /\ Becomes(flush(State), "flush", None)
    /\ UNCHANGED <<is_debug_mode_enabled, rx, tx_dropped, pc, now, ticks, sent,
                   burst, pushes>>
    /\ UNCHANGED <<groupVars, uploaderVars, configVars>>

Next == Push \/ Flush

Spec == Init /\ [][Next]_vars

----------------------------------------------------------------------------
(* ThreadSpec: the journal producer, the channel and the upload task *)

\* main.rs: the fields of a journal record the shipper reads; a string
\* field is its length, _SOURCE_REALTIME_TIMESTAMP the parsed microseconds
\* (None when the field is missing or does not parse)
JournalRecord(message, comm, micros) ==
    [MESSAGE |-> message, COMM |-> comm, SOURCE_REALTIME_TIMESTAMP |-> micros]

JournalRecords ==
    {JournalRecord(m, c, t) : m \in {None, Some(5)}, c \in {None, Some(4)},
                              t \in {None, Some(999), Some(1000)}}

get_record_timestamp_millis(record, clock) ==
    IF record.SOURCE_REALTIME_TIMESTAMP # None
    THEN record.SOURCE_REALTIME_TIMESTAMP[1] \div 1000
    ELSE clock

\* the length of the command name, of "unknown" when there is none
get_record_comm(record) ==
    IF record.COMM # None THEN record.COMM[1] ELSE 7

\* Some(event) with message "{comm}: {message}", None without MESSAGE
parse_record(record, clock) ==
    IF record.MESSAGE # None
    THEN Some(InputLogEvent(
                  Some(get_record_timestamp_millis(record, clock)),
                  Some(get_record_comm(record) + 2 + record.MESSAGE[1])))
    ELSE None

ThreadInit ==
    /\ is_debug_mode_enabled \in BOOLEAN
    /\ events = <<>>
    /\ first_timestamp = None
    /\ last_timestamp = None
    /\ num_pending_bytes = 0
    /\ uploader = <<>>
    /\ rx = <<>>
    /\ tx_dropped = FALSE
    /\ pc = "recv"
    /\ now = 0
    /\ ticks = 0
    /\ sent = <<>>
    /\ pushed = <<>>
    /\ burst = 0
    /\ pushes = 0
    /\ last = [op |-> "new", event |-> None, pre |-> Fields(new(FALSE)),
               uploader |-> <<>>, flushes |-> <<>>]
    /\ GroupIdle /\ UploaderIdle /\ ConfigIdle

\* handle_journal_entry_loop: a record that parses is sent on the channel;
\* blocking_send waits while the channel is full
HandleEntry ==
    /\ ~tx_dropped
    /\ pushes < MaxSends
    /\ Len(rx) < MaxChan
    /\ \E record \in JournalRecords :
          /\ parse_record(record, now) # None
          /\ rx' = Append(rx, parse_record(record, now)[1])
          /\ sent' = Append(sent, parse_record(record, now)[1])
    /\ pushes' = pushes + 1
    /\ UNCHANGED <<is_debug_mode_enabled, events, first_timestamp,
                   last_timestamp, num_pending_bytes, uploader, tx_dropped,
                   pc, now, ticks, pushed, burst, last>>
    /\ UNCHANGED <<groupVars, uploaderVars, configVars>>

\* the producer goes away: the Sender is dropped
DropSender ==
    /\ ~tx_dropped
    /\ tx_dropped' = TRUE
    /\ UNCHANGED <<is_debug_mode_enabled, events, first_timestamp,
                   last_timestamp, num_pending_bytes, uploader, rx, pc, now,
                   ticks, sent, pushed, burst, pushes, last>>
    /\ UNCHANGED <<groupVars, uploaderVars, configVars>>

\* the wall clock advances
Tick ==
    /\ ticks < MaxTicks
    /\ \E d \in {1, AgeLimit} : now' = now + d
    /\ ticks' = ticks + 1
    /\ UNCHANGED <<is_debug_mode_enabled, events, first_timestamp,
                   last_timestamp, num_pending_bytes, uploader, rx,
                   tx_dropped, pc, sent, pushed, burst, pushes, last>>
    /\ UNCHANGED <<groupVars, uploaderVars, configVars>>

\* upload_thread: rx.recv() yields Some(record), which is pushed
Recv ==
    /\ pc = "recv"
    /\ rx # <<>>
    /\ Becomes(push(State, Head(rx)), "push", Some(Head(rx)))
    /\ rx' = Tail(rx)
    /\ UNCHANGED <<is_debug_mode_enabled, tx_dropped, pc, now, ticks, sent,
                   burst, pushes>>
    /\ UNCHANGED <<groupVars, uploaderVars, configVars>>

\* variant: the final flush is unconditional
Shutdown_AlwaysFlush ==
    /\ pc = "recv"
    /\ rx = <<>>
    /\ tx_dropped
    /\ Becomes(flush(State), "shutdown", None)
    /\ pc' = "done"
    /\ UNCHANGED <<is_debug_mode_enabled, rx, tx_dropped, now, ticks, sent,
                   burst, pushes>>
    /\ UNCHANGED <<groupVars, uploaderVars, configVars>>

\* upload_thread: rx.recv() yields None (channel empty, Sender dropped), the
\* loop ends, "old" records are flushed and the task returns
Shutdown ==
    /\ pc = "recv"
    /\ rx = <<>>
    /\ tx_dropped
    /\ Becomes(IF first_timestamp # None
                  /\ now - first_timestamp[1] > AgeLimit
               THEN flush(State) ELSE State,
               "shutdown", None)
    /\ pc' = "done"
    /\ UNCHANGED <<is_debug_mode_enabled, rx, tx_dropped, now, ticks, sent,
                   burst, pushes>>
    /\ UNCHANGED <<groupVars, uploaderVars, configVars>>

ThreadNext == HandleEntry \/ DropSender \/ Tick \/ Recv \/ Shutdown

ThreadSpec == ThreadInit /\ [][ThreadNext]_vars

\* the tokio runtime keeps polling the upload task: a step it can take is
\* taken; nothing obliges the journal to produce or the clock model to move
FairThreadSpec == ThreadSpec /\ WF_vars(Recv) /\ WF_vars(Shutdown)

----------------------------------------------------------------------------
(* GroupSpec: do_group_events *)

\* Duration::from_secs(57600).as_millis()
sixteen == 57600000

\* variant: an unstable sort, e goes in front of the elements equal to it
Rank_Unstable(v, e) ==
    Cardinality({i \in 1..Len(v) : OptionLt(v[i].timestamp, e.timestamp)})

\* the number of elements of the sorted vector v that stay in front of e
\* when e, which came after them in the input, is inserted: those that do
\* not compare greater than e
Rank(v, e) ==
    Cardinality({i \in 1..Len(v) : ~OptionLt(e.timestamp, v[i].timestamp)})

\* sorted.sort_by(|a, b| a.timestamp.cmp(&b.timestamp)): a stable sort by
\* Option<i64>, computed by insertion from the left
RECURSIVE sort_by_timestamp(_)
sort_by_timestamp(v) ==
    IF v = <<>> THEN <<>>
    ELSE LET front == sort_by_timestamp(SubSeq(v, 1, Len(v) - 1))
             e == v[Len(v)]
             k == Rank(front, e)
         IN  SubSeq(front, 1, k) \o <<e>> \o SubSeq(front, k + 1, Len(front))

\* variant: the event is compared with the last event of the open group
too_new_Last(existing_group, event) ==
    IF event.timestamp # None
    THEN IF existing_group[Len(existing_group)].timestamp # None
         THEN event.timestamp[1] - sixteen
                  > existing_group[Len(existing_group)].timestamp[1]
         ELSE TRUE
    ELSE TRUE

\* variant: an event exactly sixteen hours after the first is too new
too_new_Inclusive(existing_group, event) ==
    IF event.timestamp # None
    THEN IF existing_group[1].timestamp # None
         THEN event.timestamp[1] - sixteen >= existing_group[1].timestamp[1]
         ELSE TRUE
    ELSE TRUE

\* the match on event.timestamp and first.timestamp
too_new(existing_group, event) ==
    IF event.timestamp # None
    THEN IF existing_group[1].timestamp # None
         THEN event.timestamp[1] - sixteen > existing_group[1].timestamp[1]
         ELSE TRUE
    ELSE TRUE

\* variant: the old group is not put back before the new one is pushed
group_step_DropsOld(groups, event) ==
    IF groups = <<>> THEN <<<<event>>>>
    ELSE IF too_new(groups[Len(groups)], event)
         THEN Append(SubSeq(groups, 1, Len(groups) - 1), <<event>>)
         ELSE [groups EXCEPT ![Len(groups)] = Append(@, event)]

\* one iteration of the loop over the sorted events
group_step(groups, event) ==
    IF groups = <<>> THEN <<<<event>>>>
    ELSE IF too_new(groups[Len(groups)], event)
         THEN Append(groups, <<event>>)
         ELSE [groups EXCEPT ![Len(groups)] = Append(@, event)]

RECURSIVE group_loop(_, _)
group_loop(groups, sorted) ==
    IF sorted = <<>> THEN groups
    ELSE group_loop(group_step(groups, Head(sorted)), Tail(sorted))

do_group_events(v) == group_loop(<<>>, sort_by_timestamp(v))

\* timestamps: absent, 0, 42 ms, 16 h, 16 h + 1 ms, 17 h, 34 h, 48 h
GroupTimestamps ==
    {None, Some(0), Some(42), Some(57600000), Some(57600001),
     Some(61200000), Some(122400000), Some(172800000)}

\* the lists of at most MaxGroupLen events; the message of an event is its
\* position in the list, which tells the events of a list apart
GroupInputs ==
    UNION {{[i \in 1..n |-> InputLogEvent(f[i], Some(i))] :
                f \in [1..n -> GroupTimestamps]} : n \in 0..MaxGroupLen}

GroupInit ==
    /\ g_events \in GroupInputs
    /\ g_groups = None
    /\ g_regroups = None
    /\ BatcherIdle /\ UploaderIdle /\ ConfigIdle

\* uploader.group_events(events)
GroupEvents ==
    /\ g_groups = None
    /\ g_groups' = Some(do_group_events(g_events))
    /\ UNCHANGED <<g_events, g_regroups, batcherVars, uploaderVars, configVars>>

\* uploader.group_events(group) for every sub-group of the result
Regroup ==
    /\ g_groups # None
    /\ g_regroups = None
    /\ g_regroups' = Some([k \in 1..Len(g_groups[1]) |->
                               do_group_events(g_groups[1][k])])
    /\ UNCHANGED <<g_events, g_groups, batcherVars, uploaderVars, configVars>>

GroupNext == GroupEvents \/ Regroup

GroupSpec == GroupInit /\ [][GroupNext]_vars

----------------------------------------------------------------------------
(* UploaderSpec: the CloudWatch uploader and the remote service *)

\* conf.log_stream_name
StreamName == "myStream"

LogStream(name, token) ==
    [log_stream_name |-> name, upload_sequence_token |-> token]

\* what DescribeLogStreams can answer: an error, no list, an empty list, a
\* first stream that only shares the prefix, the stream without or with an
\* upload sequence token
DescribeErr == [ok |-> FALSE, log_streams |-> None]
DescribeOk(streams) == [ok |-> TRUE, log_streams |-> streams]

DescribeResponses ==
    {DescribeErr, DescribeOk(None), DescribeOk(Some(<<>>)),
     DescribeOk(Some(<<LogStream(Some("myStream2"), Some("d9"))>>)),
     DescribeOk(Some(<<LogStream(Some(StreamName), None)>>)),
     DescribeOk(Some(<<LogStream(Some(StreamName), Some("d1"))>>))}

\* the answers given to the describes of a refresh that follows a failed
\* put: an error, an empty list, the stream without or with a token
RefreshResponses ==
    {DescribeErr, DescribeOk(Some(<<>>)),
     DescribeOk(Some(<<LogStream(Some(StreamName), None)>>)),
     DescribeOk(Some(<<LogStream(Some(StreamName), Some("d1"))>>))}

\* CloudWatch::get_log_stream on the answer of DescribeLogStreams
get_log_stream(response) ==
    IF response.ok
    THEN IF response.log_streams # None
            /\ response.log_streams[1] # <<>>
            /\ response.log_streams[1][1].log_stream_name = Some(StreamName)
         THEN Some(response.log_streams[1][1])
         ELSE None
    ELSE None

\* variant: a refresh that does not find the stream clears the token
update_sequence_token_Clears(s, at, d1, d2) ==
    LET first == get_log_stream(d1)
        log_stream == IF first = None THEN get_log_stream(d2) ELSE first
        token == IF log_stream # None
                 THEN log_stream[1].upload_sequence_token
                 ELSE None
    IN  [s EXCEPT !.sequence_token = token,
                  !.refreshes = Append(@, [after_put |-> at,
                                           before |-> s.sequence_token,
                                           created |-> first = None,
                                           stream |-> log_stream,
                                           after |-> token])]

\* CloudWatch::update_sequence_token; d1 and d2 are the answers to the
\* describe before and after create_log_stream, whose own answer is only
\* logged.  Every call is recorded with the put it follows (0 at
\* construction), the token before, the stream found and the token after.
update_sequence_token(s, at, d1, d2) ==
    LET first == get_log_stream(d1)
        log_stream == IF first = None THEN get_log_stream(d2) ELSE first
        token == IF log_stream # None
                 THEN log_stream[1].upload_sequence_token
                 ELSE s.sequence_token
    IN  [s EXCEPT !.sequence_token = token,
                  !.refreshes = Append(@, [after_put |-> at,
                                           before |-> s.sequence_token,
                                           created |-> first = None,
                                           stream |-> log_stream,
                                           after |-> token])]

\* what PutLogEvents can answer, with the answers to the describes of the
\* refresh that follows an error
PutOk(next) ==
    [ok |-> TRUE, next_sequence_token |-> next, d1 |-> DescribeErr,
     d2 |-> DescribeErr]
PutErr(d1, d2) ==
    [ok |-> FALSE, next_sequence_token |-> None, d1 |-> d1, d2 |-> d2]

PutAnswers ==
    {PutOk(t) : t \in {None, Some("p1"), Some("p2")}}
    \cup {PutErr(d1, d2) : d1 \in {d \in RefreshResponses :
                                       get_log_stream(d) # None},
                           d2 \in {DescribeErr}}
    \cup {PutErr(d1, d2) : d1 \in {d \in RefreshResponses :
                                       get_log_stream(d) = None},
                           d2 \in RefreshResponses}

\* the request of one put_log_events() call and its answer
PutRecord(s, group, answer) ==
    [token |-> s.sequence_token, events |-> group, ok |-> answer.ok,
     next |-> answer.next_sequence_token]

\* variant: a successful put stores the next token only when there is one
put_group_KeepsOnNone(s, group, answer) ==
    LET sent_s == [s EXCEPT !.puts = Append(@, PutRecord(s, group, answer))]
    IN  IF answer.ok
        THEN IF answer.next_sequence_token # None
             THEN [sent_s EXCEPT !.sequence_token = answer.next_sequence_token]
             ELSE sent_s
        ELSE update_sequence_token(sent_s, Len(sent_s.puts),
                                   answer.d1, answer.d2)

\* variant: the sub-group whose put failed is sent again after the refresh
put_group_Retries(s, group, answer) ==
    LET sent_s == [s EXCEPT !.puts = Append(@, PutRecord(s, group, answer))]
    IN  IF answer.ok
        THEN [sent_s EXCEPT !.sequence_token = answer.next_sequence_token]
        ELSE LET r == update_sequence_token(sent_s, Len(sent_s.puts),
                                            answer.d1, answer.d2)
             IN  [r EXCEPT !.puts = Append(@, PutRecord(r, group, PutOk(None))),
                           !.sequence_token = None]

\* the body of the loop of CloudWatch::upload for one sub-group
put_group(s, group, answer) ==
    LET sent_s == [s EXCEPT !.puts = Append(@, PutRecord(s, group, answer))]
    IN  IF answer.ok
        THEN [sent_s EXCEPT !.sequence_token = answer.next_sequence_token]
        ELSE update_sequence_token(sent_s, Len(sent_s.puts),
                                   answer.d1, answer.d2)

\* variant: upload() returns after the refresh that follows a failed put
RECURSIVE upload_loop_ReturnsOnError(_, _, _)
upload_loop_ReturnsOnError(s, groups, answers) ==
    IF groups = <<>> THEN s
    ELSE IF ~Head(answers).ok
         THEN put_group(s, Head(groups), Head(answers))
         ELSE upload_loop_ReturnsOnError(
                  put_group(s, Head(groups), Head(answers)),
                  Tail(groups), Tail(answers))

\* the loop of CloudWatch::upload over the sub-groups
RECURSIVE upload_loop(_, _, _)
upload_loop(s, groups, answers) ==
    IF groups = <<>> THEN s
    ELSE upload_loop(put_group(s, Head(groups), Head(answers)),
                     Tail(groups), Tail(answers))

\* CloudWatch::upload
upload(s, batch, answers) == upload_loop(s, do_group_events(batch), answers)

\* the uploader at the start of an operation
CloudWatch(token) == [sequence_token |-> token, puts |-> <<>>, refreshes |-> <<>>]

\* timestamps of the batches: 0 and 16 h + 1 ms
UploadTimestamps == {0, 57600001}

\* the batches the Batcher can hand over: not empty, timestamps in
\* non-decreasing order; the message of an event is its position
UploadBatches ==
    UNION {{[i \in 1..n |-> InputLogEvent(Some(f[i]), Some(i))] :
                f \in {g \in [1..n -> UploadTimestamps] :
                           \A i \in 1..(n - 1) : g[i] <= g[i + 1]}} :
           n \in 1..MaxBatchLen}

UploaderInit ==
    /\ sequence_token = None
    /\ cw = CwInit
    /\ BatcherIdle /\ GroupIdle /\ ConfigIdle

\* CloudWatch::new
NewCloudWatch ==
    /\ cw.op = "none"
    /\ \E d1, d2 \in DescribeResponses :
          LET r == update_sequence_token(CloudWatch(None), 0, d1, d2)
          IN  /\ sequence_token' = r.sequence_token
              /\ cw' = [op |-> "new", before |-> None, groups |-> <<>>,
                        puts |-> r.puts, refreshes |-> r.refreshes]
    /\ UNCHANGED <<batcherVars, groupVars, configVars>>

\* uploader.upload(events).await
Upload ==
    /\ cw.op # "none"
    /\ \E batch \in UploadBatches :
          \E answers \in [1..Len(do_group_events(batch)) -> PutAnswers] :
              LET r == upload(CloudWatch(sequence_token), batch, answers)
              IN  /\ sequence_token' = r.sequence_token
                  /\ cw' = [op |-> "upload", before |-> sequence_token,
                            groups |-> do_group_events(batch),
                            puts |-> r.puts, refreshes |-> r.refreshes]
    /\ UNCHANGED <<batcherVars, groupVars, configVars>>

UploaderNext == NewCloudWatch \/ Upload

UploaderSpec == UploaderInit /\ [][UploaderNext]_vars

----------------------------------------------------------------------------
(* ConfigSpec: the log stream name resolved at startup *)

\* a Result<String, _>: the value when ok, the kind of error otherwise
Ok(value) == [ok |-> TRUE, value |-> value]
Err(kind) == [ok |-> FALSE, value |-> kind]

\* what the metadata endpoint can answer: no answer within the timeout, or
\* a status and a body
IdResponse(answered, status, body) ==
    [answered |-> answered, status |-> status, body |-> body]

IdResponses ==
    {IdResponse(FALSE, 0, ""), IdResponse(TRUE, 200, "i-0abc"),
     IdResponse(TRUE, 200, "i-0def"), IdResponse(TRUE, 404, "Not Found")}

\* ec2::get_instance_id: response?.error_for_status()?.text()
get_instance_id(response) ==
    IF ~response.answered THEN Err("send")
    ELSE IF response.status >= 400 /\ response.status <= 599
         THEN Err("status")
         ELSE Ok(response.body)

Tag(key, value) == [key |-> key, value |-> value]

Tags == {Tag(k, v) : k \in {None, Some("Name"), Some("Env")},
                     v \in {None, Some("web")}}

TagLists == UNION {[1..n -> Tags] : n \in 0..MaxTags}

\* what DescribeInstances can answer
InstancesErr == [ok |-> FALSE, reservations |-> None]
InstancesOk(reservations) == [ok |-> TRUE, reservations |-> reservations]
Reservation(instances) == [instances |-> instances]
Instance(tags) == [tags |-> tags]

InstancesResponses ==
    {InstancesErr, InstancesOk(None), InstancesOk(Some(<<>>)),
     InstancesOk(Some(<<Reservation(None)>>)),
     InstancesOk(Some(<<Reservation(Some(<<>>))>>)),
     InstancesOk(Some(<<Reservation(Some(<<Instance(None)>>))>>))}
    \cup {InstancesOk(Some(<<Reservation(Some(<<Instance(Some(t))>>))>>)) :
              t \in TagLists}

\* the loop over the tags: the value of the first tag with key "Name" that
\* has a value
RECURSIVE name_tag(_)
name_tag(tags) ==
    IF tags = <<>> THEN Err("MissingNameTag")
    ELSE IF Head(tags).key = Some("Name") /\ Head(tags).value # None
         THEN Ok(Head(tags).value[1])
         ELSE name_tag(Tail(tags))

\* ec2::get_instance_name on the answer of DescribeInstances
get_instance_name(result) ==
    IF ~result.ok THEN Err("DescribeInstancesError")
    ELSE IF result.reservations = None THEN Err("MissingReservations")
    ELSE IF result.reservations[1] = <<>> THEN Err("EmptyReservations")
    ELSE LET reservation == result.reservations[1][1] IN
         IF reservation.instances = None THEN Err("MissingInstances")
         ELSE IF reservation.instances[1] = <<>> THEN Err("EmptyInstances")
         ELSE LET instance == reservation.instances[1][1] IN
              IF instance.tags = None THEN Err("MissingTags")
              ELSE name_tag(instance.tags[1])

\* configuration::get_log_stream_name
get_log_stream_name(id_response, instances_response) ==
    IF get_instance_id(id_response).ok
    THEN IF get_instance_name(instances_response).ok
         THEN get_instance_name(instances_response).value
         ELSE "unknown"
    ELSE "unknown"

ConfigInit ==
    /\ probe \in {Some([id |-> i, instances |-> r]) :
                      i \in IdResponses, r \in InstancesResponses}
    /\ log_stream_name = None
    /\ BatcherIdle /\ GroupIdle /\ UploaderIdle

\* Configuration::new
NewConfiguration ==
    /\ log_stream_name = None
    /\ log_stream_name' =
           Some(get_log_stream_name(probe[1].id, probe[1].instances))
    /\ UNCHANGED <<probe, batcherVars, groupVars, uploaderVars>>

ConfigNext == NewConfiguration

ConfigSpec == ConfigInit /\ [][ConfigNext]_vars

----------------------------------------------------------------------------
(* Properties of the Batcher, checked under Spec *)

\* the event of the last push
LastEvent == last.event[1]

IsPush == last.op = "push"
IsFlush == last.op = "flush"

\* batches handed to the Uploader by the last operation
Handed == SubSeq(uploader, Len(last.uploader) + 1, Len(uploader))

\* the trigger conditions of the flush policy, on the state a push found
SizeApplies(pre, event) ==
    pre.num_pending_bytes + get_event_num_bytes(event) > max_bytes

CountApplies(pre, event, debug) ==
    Len(pre.events) + 1 >= max_events(debug)

OrderingApplies(pre, event) ==
    /\ pre.last_timestamp # None
    /\ event.timestamp[1] < pre.last_timestamp[1]

NonDecreasing(batch) ==
    \A j \in 1..(Len(batch) - 1) :
        ~OptionLt(batch[j + 1].timestamp, batch[j].timestamp)

\* C2: after each push returns, num_pending_bytes is at most 1,048,576.
C2_ByteCap == IsPush => num_pending_bytes <= 1048576

\* C3 as stated: after each push returns, len(pending) < max_events, with
\* max_events 100 in normal mode and 1 in debug mode.
C3_Original == IsPush => Len(events) < max_events(is_debug_mode_enabled)

\* C3 as amended: after each push returns, len(pending) < 100 in normal
\* mode and len(pending) <= 1 in debug mode.
C3_CountCap ==
    IsPush => IF is_debug_mode_enabled THEN Len(events) <= 1
              ELSE Len(events) < 100

C3_Witness ==
    /\ IsPush
    /\ ~is_debug_mode_enabled
    /\ Len(last.pre.events) = 99
    /\ Len(events) = 1

\* C4: when push(e) returns, e is the last element of pending, however many
\* flush triggers fired during that push.
C4_PushRetains ==
    IsPush => /\ events # <<>>
              /\ events[Len(events)] = LastEvent

C4_Witness ==
    /\ IsPush
    /\ Len(last.flushes) = 3
    /\ Len(Handed) = 1
    /\ events = <<LastEvent>>

\* C5 as stated: in debug mode (max_events = 1) every push(e) has handed e
\* to the Uploader when it returns, and pending is empty.
C5_Original ==
    (IsPush /\ is_debug_mode_enabled) =>
        /\ events = <<>>
        /\ uploader # <<>>
        /\ uploader[Len(uploader)] = <<LastEvent>>

\* C5 as amended: in debug mode every push(e) hands the event that was
\* pending, if any, to the Uploader as a batch of its own and retains e:
\* when it returns pending is exactly <<e>> and e has not been uploaded.
C5_DebugMode ==
    (IsPush /\ is_debug_mode_enabled) =>
        /\ events = <<LastEvent>>
        /\ Len(last.pre.events) <= 1
        /\ uploader = IF last.pre.events = <<>> THEN last.uploader
                      ELSE Append(last.uploader, last.pre.events)

C5_Witness ==
    /\ IsPush
    /\ is_debug_mode_enabled
    /\ Len(last.pre.events) = 1
    /\ Len(uploader) = 2

\* C6: in a push(e) that finds pending non-empty and neither the size nor
\* the count trigger applicable, the pending events are uploaded before e is
\* appended iff e.timestamp < last_ts; an equal timestamp uploads nothing,
\* and after an ordering flush exactly e is buffered.
C6_OrderingStrict ==
    (/\ IsPush
     /\ last.pre.events # <<>>
     /\ LastEvent.timestamp # None
     /\ ~SizeApplies(last.pre, LastEvent)
     /\ ~CountApplies(last.pre, LastEvent, is_debug_mode_enabled)) =>
        IF OrderingApplies(last.pre, LastEvent)
        THEN /\ uploader = Append(last.uploader, last.pre.events)
             /\ events = <<LastEvent>>
        ELSE /\ uploader = last.uploader
             /\ events = Append(last.pre.events, LastEvent)

C6_Witness ==
    /\ IsPush
    /\ Len(last.pre.events) = 2
    /\ LastEvent.timestamp # None
    /\ ~SizeApplies(last.pre, LastEvent)
    /\ ~CountApplies(last.pre, LastEvent, is_debug_mode_enabled)
    /\ OrderingApplies(last.pre, LastEvent)
    /\ Handed = <<last.pre.events>>

\* C7: every batch handed to Uploader::upload has non-decreasing timestamps
\* in arrival order.
C7_BatchMonotone ==
    \A i \in 1..Len(uploader) : NonDecreasing(uploader[i])

C7_Witness ==
    /\ IsPush
    /\ Len(Handed) = 1
    /\ Len(Handed[1]) >= 2
    /\ Handed[1][1].timestamp # Handed[1][Len(Handed[1])].timestamp
    /\ OptionLt(LastEvent.timestamp, last.pre.last_timestamp)

\* C8: after every call to flush(), with pending empty or not, pending is
\* empty, first_timestamp and last_timestamp are None and num_pending_bytes
\* is 0.
C8_FlushPostState ==
    \A i \in 1..Len(last.flushes) :
        /\ last.flushes[i].post.events = <<>>
        /\ last.flushes[i].post.first_timestamp = None
        /\ last.flushes[i].post.last_timestamp = None
        /\ last.flushes[i].post.num_pending_bytes = 0

C8_Witness ==
    /\ Len(last.flushes) >= 2
    /\ last.flushes[1].batch # None
    /\ last.flushes[2].batch = None
    /\ last.pre.num_pending_bytes > 0

\* C9: a push that fires no trigger hands nothing to the Uploader; flush()
\* with pending non-empty calls upload exactly once with the pending events
\* in arrival order; flush() with pending empty calls upload zero times.
C9_ManualFlush ==
    /\ (/\ IsPush
        /\ LastEvent.timestamp # None
        /\ ~OrderingApplies(last.pre, LastEvent)
        /\ ~SizeApplies(last.pre, LastEvent)
        /\ ~CountApplies(last.pre, LastEvent, is_debug_mode_enabled))
           => uploader = last.uploader
    /\ (IsFlush /\ last.pre.events # <<>>)
           => uploader = Append(last.uploader, last.pre.events)
    /\ (IsFlush /\ last.pre.events = <<>>)
           => uploader = last.uploader

C9_Witness ==
    /\ IsFlush
    /\ Len(last.pre.events) = 2
    /\ last.uploader = <<>>
    /\ uploader = <<last.pre.events>>

----------------------------------------------------------------------------
(* Properties of the upload task, checked under ThreadSpec / FairThreadSpec *)

\* the upload task holds an event whose first_timestamp is more than
\* AgeLimit ms old
AgedPending ==
    /\ pc = "recv"
    /\ events # <<>>
    /\ first_timestamp # None
    /\ now - first_timestamp[1] > AgeLimit

\* the channel is open and yields nothing
Idle == rx = <<>> /\ ~tx_dropped

\* C1: whenever pending holds an event more than 1000 ms old and the channel
\* stays open but idle, the upload task eventually flushes pending.
C1_AgeTrigger == (AgedPending /\ Idle) ~> (events = <<>> \/ ~Idle)

\* C10: when the channel is closed the upload task has pushed every event
\* that was sent, flushes iff first_timestamp is set and more than 1000 ms
\* old, and exits; events it leaves pending are never handed to the Uploader.
C10_Shutdown ==
    [][/\ (pc = "recv" /\ pc' = "done") =>
            /\ rx = <<>> /\ tx_dropped
            /\ pushed = sent /\ pushed' = sent
            /\ IF first_timestamp # None /\ now - first_timestamp[1] > 1000
               THEN /\ events # <<>>
                    /\ uploader' = Append(uploader, events)
                    /\ events' = <<>>
               ELSE /\ uploader' = uploader
                    /\ events' = events
       /\ pc = "done" => (pc' = "done" /\ uploader' = uploader
                          /\ events' = events)]_vars

C10_Witness ==
    /\ pc = "done"
    /\ last.op = "shutdown"
    /\ Len(sent) >= 2
    /\ events # <<>>
    /\ first_timestamp # None
    /\ now - first_timestamp[1] = 1000
    /\ uploader = last.uploader

----------------------------------------------------------------------------
(* Properties of do_group_events, checked under GroupSpec *)

Groups == g_groups[1]

RECURSIVE Flatten(_)
Flatten(groups) ==
    IF groups = <<>> THEN <<>> ELSE Head(groups) \o Flatten(Tail(groups))

AllPresent(v) == \A i \in 1..Len(v) : v[i].timestamp # None

TimestampsOf(v) == [i \in 1..Len(v) |-> v[i].timestamp]

\* C11: for an input whose events all carry a timestamp, every sub-group
\* spans at most 57,600,000 ms from its smallest to its largest timestamp.
C11_SpanBound ==
    (g_groups # None /\ AllPresent(g_events)) =>
        \A k \in 1..Len(Groups) :
            \A i, j \in 1..Len(Groups[k]) :
                Groups[k][i].timestamp[1] - Groups[k][j].timestamp[1]
                    <= 57600000

C11_Witness ==
    /\ g_groups # None
    /\ AllPresent(g_events)
    /\ Len(Groups) = 2
    /\ Len(Groups[1]) = 2
    /\ Groups[1][2].timestamp[1] - Groups[1][1].timestamp[1] = 57600000

\* C12: the concatenation of the sub-groups, in emission order, is the
\* input stably sorted by timestamp ascending: the same events, timestamps
\* non-decreasing, equal timestamps in input order, and no group is empty.
C12_Concatenation ==
    g_groups # None =>
        LET out == Flatten(Groups) IN
        /\ Len(out) = Len(g_events)
        /\ \A i \in 1..Len(g_events) : \E j \in 1..Len(out) : out[j] = g_events[i]
        /\ \A j, k \in 1..Len(out) :
              (j < k /\ out[j].timestamp # None /\ out[k].timestamp # None)
                  => out[j].timestamp[1] <= out[k].timestamp[1]
        /\ \A j, k \in 1..Len(out) :
              (j < k /\ out[j].timestamp = out[k].timestamp)
                  => out[j].message[1] < out[k].message[1]
        /\ \A k \in 1..Len(Groups) : Groups[k] # <<>>

C12_Witness ==
    /\ g_groups # None
    /\ Len(g_events) = 3
    /\ AllPresent(g_events)
    /\ g_events[1].timestamp[1] > g_events[2].timestamp[1]
    /\ g_events[2].timestamp = g_events[3].timestamp
    /\ Len(Groups) = 2
    /\ Flatten(Groups) = <<g_events[2], g_events[3], g_events[1]>>

\* C13: for events carrying timestamps, taken in timestamp order, an event
\* joins the open sub-group iff its timestamp minus the timestamp of the
\* group's first event is <= 57,600,000 ms, otherwise it opens a new group;
\* 0, 42 ms, 48 h give 2 groups and 0, 17 h, 34 h give 3 groups.
C13_GreedyWindow ==
    (g_groups # None /\ AllPresent(g_events)) =>
        /\ \A k \in 1..Len(Groups) :
              \A j \in 2..Len(Groups[k]) :
                  Groups[k][j].timestamp[1] - Groups[k][1].timestamp[1]
                      <= 57600000
        /\ \A k \in 2..Len(Groups) :
              Groups[k][1].timestamp[1] - Groups[k - 1][1].timestamp[1]
                  > 57600000
        /\ TimestampsOf(g_events) = <<Some(0), Some(42), Some(172800000)>>
              => Groups = <<SubSeq(g_events, 1, 2), SubSeq(g_events, 3, 3)>>
        /\ TimestampsOf(g_events)
               = <<Some(0), Some(61200000), Some(122400000)>>
              => Groups = <<SubSeq(g_events, 1, 1), SubSeq(g_events, 2, 2),
                            SubSeq(g_events, 3, 3)>>

C13_Witness ==
    /\ g_groups # None
    /\ TimestampsOf(g_events) = <<Some(0), Some(57600000), Some(57600001)>>
    /\ Len(Groups) = 2
    /\ Len(Groups[1]) = 2

\* C14: do_group_events applied to any single sub-group it produced returns
\* exactly one sub-group, equal to that sub-group.
C14_Idempotent ==
    g_regroups # None =>
        \A k \in 1..Len(Groups) : g_regroups[1][k] = <<Groups[k]>>

C14_Witness ==
    /\ g_regroups # None
    /\ Len(Groups) = 2
    /\ Len(Groups[1]) = 2
    /\ Groups[1][1].timestamp = Groups[1][2].timestamp
    /\ g_regroups[1] = <<<<Groups[1]>>, <<Groups[2]>>>>

----------------------------------------------------------------------------
(* Properties of the CloudWatch uploader, checked under UploaderSpec *)

IsUpload == cw.op = "upload"

\* the events of a sequence, as a set
Range(v) == {v[i] : i \in 1..Len(v)}

\* the refreshes that followed put i
RefreshesAfter(i) ==
    {k \in 1..Len(cw.refreshes) : cw.refreshes[k].after_put = i}

\* the token the uploader holds once put i has been answered, read off the
\* answers of the remote service
TokenAfterPut(i) ==
    IF cw.puts[i].ok THEN cw.puts[i].next
    ELSE LET r == cw.refreshes[CHOOSE k \in RefreshesAfter(i) : TRUE]
         IN  IF r.stream # None THEN r.stream[1].upload_sequence_token
             ELSE cw.puts[i].token

\* the token carried by the request that follows put i: the next put of the
\* upload, or the token left for the next upload
TokenCarriedAfter(i) ==
    IF i < Len(cw.puts) THEN cw.puts[i + 1].token ELSE sequence_token

\* C15: every sub-group is submitted in at most one PutLogEvents request,
\* a sub-group whose put failed is not sent again, and no event appears in
\* more than one put request.
C15_AtMostOnce ==
    IsUpload =>
        /\ \A i \in 1..Len(cw.puts) :
              \E k \in 1..Len(cw.groups) : cw.puts[i].events = cw.groups[k]
        /\ \A i, j \in 1..Len(cw.puts) :
              i # j => Range(cw.puts[i].events) \cap Range(cw.puts[j].events)
                           = {}

C15_Witness ==
    /\ IsUpload
    /\ Len(cw.groups) = 2
    /\ Len(cw.puts) = 2
    /\ ~cw.puts[1].ok
    /\ cw.puts[2].ok

\* C16: every put carries the uploader's current sequence_token, present or
\* absent; after a successful put the stored token is the response's
\* next_sequence_token, which the next put carries.
C16_TokenChain ==
    IsUpload =>
        /\ cw.puts # <<>>
        /\ cw.puts[1].token = cw.before
        /\ \A i \in 1..Len(cw.puts) :
              cw.puts[i].ok => TokenCarriedAfter(i) = cw.puts[i].next

C16_Witness ==
    /\ IsUpload
    /\ cw.before = Some("d1")
    /\ Len(cw.puts) = 2
    /\ cw.puts[1].ok
    /\ cw.puts[1].next = None
    /\ cw.puts[2].token = None
    /\ cw.puts[2].ok
    /\ sequence_token = Some("p2")

\* C17 as stated: whenever a token refresh fails to obtain the stream, the
\* uploader continues with sequence_token absent, whatever token it held.
C17_Original ==
    \A k \in 1..Len(cw.refreshes) :
        cw.refreshes[k].stream = None =>
            /\ cw.refreshes[k].after = None
            /\ (cw.refreshes[k].after_put > 0
                    => TokenCarriedAfter(cw.refreshes[k].after_put) = None)

\* C17 as amended: whenever a token refresh fails to obtain the stream, the
\* uploader continues with the sequence_token it held before the refresh
\* (absent at construction), and the next put carries that token.
C17_RefreshFailureKeepsToken ==
    \A k \in 1..Len(cw.refreshes) :
        cw.refreshes[k].stream = None =>
            /\ cw.refreshes[k].after = cw.refreshes[k].before
            /\ (cw.refreshes[k].after_put = 0 => sequence_token = None)
            /\ (cw.refreshes[k].after_put > 0 =>
                    /\ cw.refreshes[k].before
                           = cw.puts[cw.refreshes[k].after_put].token
                    /\ TokenCarriedAfter(cw.refreshes[k].after_put)
                           = cw.puts[cw.refreshes[k].after_put].token)

C17_Witness ==
    /\ IsUpload
    /\ Len(cw.puts) = 2
    /\ cw.puts[1].token = Some("p1")
    /\ ~cw.puts[1].ok
    /\ Len(cw.refreshes) = 1
    /\ cw.refreshes[1].stream = None
    /\ cw.refreshes[1].created
    /\ cw.puts[2].token = Some("p1")

\* C19 as stated: when the put of a sub-group fails, upload() refreshes the
\* token and returns, issuing no further put for the remaining sub-groups.
C19_Original ==
    IsUpload =>
        \A i \in 1..Len(cw.puts) :
            ~cw.puts[i].ok =>
                /\ RefreshesAfter(i) # {}
                /\ i = Len(cw.puts)

\* C19 as amended: when the put of a sub-group fails, upload() refreshes the
\* token once and goes on with the remaining sub-groups of the batch: every
\* sub-group is put once, in order, and the put that follows a failed one
\* carries the token in force after the refresh.
C19_PutFailureContinues ==
    IsUpload =>
        /\ Len(cw.puts) = Len(cw.groups)
        /\ \A i \in 1..Len(cw.puts) : cw.puts[i].events = cw.groups[i]
        /\ \A i \in 1..Len(cw.puts) :
              /\ Cardinality(RefreshesAfter(i)) = IF cw.puts[i].ok THEN 0 ELSE 1
              /\ ~cw.puts[i].ok => TokenCarriedAfter(i) = TokenAfterPut(i)

C19_Witness ==
    /\ IsUpload
    /\ Len(cw.groups) = 2
    /\ ~cw.puts[1].ok
    /\ cw.puts[1].token = Some("p1")
    /\ cw.refreshes[1].stream # None
    /\ cw.puts[2].token = Some("d1")
    /\ cw.puts[2].events = cw.groups[2]

----------------------------------------------------------------------------
(* Properties of the startup configuration, checked under ConfigSpec *)

\* C18: when the instance-id probe succeeds but the Name-tag lookup fails,
\* the log stream name is the raw instance identifier; the literal fallback
\* name is used only when the probe fails.
C18_InstanceIdFallback ==
    log_stream_name # None =>
        IF probe[1].id.answered /\ probe[1].id.status = 200
        THEN get_instance_name(probe[1].instances).ok
                 \/ log_stream_name = Some(probe[1].id.body)
        ELSE log_stream_name = Some("unknown")

----------------------------------------------------------------------------
(* Bookkeeping of the Batcher, checked under Spec *)

\* the sum over v of (message length + 26)
RECURSIVE ByteWeight(_)
ByteWeight(v) ==
    IF v = <<>> THEN 0 ELSE v[1].message[1] + 26 + ByteWeight(Tail(v))

\* C20: between operations, with pending events that carry timestamps,
\* num_pending_bytes is the sum over pending of (message length + 26); when
\* pending is empty first_timestamp and last_timestamp are None and
\* num_pending_bytes is 0; when pending is not empty first_timestamp is the
\* timestamp of pending[0] and last_timestamp that of the last element.
C20_Bookkeeping ==
    AllPresent(events) =>
        /\ num_pending_bytes = ByteWeight(events)
        /\ events = <<>> =>
              /\ first_timestamp = None
              /\ last_timestamp = None
              /\ num_pending_bytes = 0
        /\ events # <<>> =>
              /\ first_timestamp = events[1].timestamp
              /\ last_timestamp = events[Len(events)].timestamp

C20_Witness ==
    /\ IsPush
    /\ uploader # <<>>
    /\ Len(events) = 2
    /\ AllPresent(events)
    /\ first_timestamp = Some(1)
    /\ last_timestamp = Some(2)
    /\ num_pending_bytes = 524288 + 26

----------------------------------------------------------------------------
(* Conservation in the Batcher, checked under Spec *)

\* C21: after any sequence of push and flush calls, the batches handed to
\* Uploader::upload, concatenated in call order and followed by pending,
\* are the pushed events in push order: nothing is lost, duplicated or
\* reordered.
C21_Conservation == Flatten(uploader) \o events = pushed

C21_Witness ==
    /\ Len(uploader) = 2
    /\ events # <<>>
    /\ Len(pushed) = 3
    /\ pushed[1] # pushed[2]
    /\ pushed[2] # pushed[3]
    /\ uploader = <<<<pushed[1]>>, <<pushed[2]>>>>

\* C22: a single push calls Uploader::upload at most once, even when
\* several triggers fire for the same event: after the first flush pending
\* is empty and the later flush() calls of that push upload nothing.
C22_OneUploadPerPush ==
    IsPush =>
        /\ Len(Handed) <= 1
        /\ Cardinality({i \in 1..Len(last.flushes) :
                            last.flushes[i].batch # None}) = Len(Handed)
        /\ \A i \in 2..Len(last.flushes) : last.flushes[i].batch = None

C22_Witness ==
    /\ IsPush
    /\ ~is_debug_mode_enabled
    /\ Len(last.flushes) = 2
    /\ last.flushes[1].batch = Some(last.pre.events)
    /\ Len(last.pre.events) = 2
    /\ Handed = <<last.pre.events>>

====
